---- MODULE Spec2Model ----
(***************************************************************************)
(* Byte-level model of label_switcher.py: the BigTIFF reader (BigTiffFile), *)
(* the label/macro locator, the offset patcher (SubImage.update_ifd) and    *)
(* the in-place writers (de_identify_slide, LabelSwitcher.switch_labels),   *)
(* plus the batch driver switch_labels_from_file.                           *)
(*                                                                         *)
(* A file is a sequence of bytes (0..255); the byte at file offset o is     *)
(* f[o + 1].  All multi-byte fields are little-endian, as struct's '<'.     *)
(***************************************************************************)
EXTENDS Integers, Sequences, FiniteSets, TLC

VARIABLES
    input,          \* the parameters the target file was built from (ghost)
    protected,      \* 'DigitalPathology' in str(file_path)
    disk,           \* the bytes of the target file on disk
    disk0,          \* the bytes of the target file before any operation (ghost)
    pc,             \* where the caller is
    err,            \* the exception that propagated, "none" if none
    raised_in,      \* the function that raised it (ghost)
    next_offset,    \* the local next_offset of BigTiffFile.__init__
    tiff_info,      \* self.tiff_info: directory -> tag -> entry
    directory_offsets,   \* self.directory_offsets
    next_dir_offsets,    \* self.next_dir_offsets
    directory_count,     \* self.directory_count
    label,          \* self._label
    macro,          \* self._macro
    remove,         \* remove_original_label_and_macro of the LabelSwitcher
    slide_offset_adjustment,     \* LabelSwitcher._slide_offset_adjustment
    next_ifd_offset_adjustment,  \* LabelSwitcher._next_ifd_offset_adjustment
    label_img,      \* LabelSwitcher._label_img (patched BytesIO content)
    macro_img,      \* LabelSwitcher._macro_img (patched BytesIO content)
    label_raw,      \* the label blob as the image builder returned it (ghost)
    macro_raw,      \* the macro blob as the image builder returned it (ghost)
    batch,          \* switch_labels_from_file: the rows of the table
    row,            \* switch_labels_from_file: index of the next row
    handled         \* switch_labels_from_file: what became of each row so far

vars == <<input, protected, disk, disk0, pc, err, raised_in, next_offset, tiff_info,
          directory_offsets, next_dir_offsets, directory_count, label, macro,
          remove, slide_offset_adjustment, next_ifd_offset_adjustment,
          label_img, macro_img, label_raw, macro_raw, batch, row, handled>>

fileVars == <<next_offset, tiff_info, directory_offsets, next_dir_offsets,
              directory_count, label, macro>>
switchVars == <<remove, slide_offset_adjustment, next_ifd_offset_adjustment,
                label_img, macro_img, label_raw, macro_raw>>
batchVars == <<batch, row, handled>>

----------------------------------------------------------------------------
(* Bounds of the model.                                                     *)

\* the number of pyramid directories before the label directory is 0..MaxPyramid
MaxPyramid == 1
\* the strip of a replacement blob holds 1..MaxStrip bytes
MaxStrip == 2
\* a batch table holds 1..MaxRows rows
MaxRows == 3

----------------------------------------------------------------------------
(* Bytes, struct.pack / struct.unpack, file reads and writes.               *)

RECURSIVE Pack(_, _)
\* struct.pack('<Q', v) for n = 8, '<H' for n = 2: n little-endian bytes of v
Pack(v, n) == IF n = 0 THEN << >> ELSE <<v % 256>> \o Pack(v \div 256, n - 1)

RECURSIVE Unpack(_)
\* struct.unpack of one little-endian unsigned integer.  Numbers from
\* 256 * 65536 on are all held as 256 * 65536: no file of the model is that
\* long, so an offset or a length that large only ever fails to be read.
Unpack(bs) ==
    IF bs = << >> THEN 0
    ELSE CHOOSE r \in { IF hi >= 65536 THEN 256 * 65536 ELSE Head(bs) + 256 * hi :
                          hi \in {Unpack(Tail(bs))} } : TRUE

\* f.seek(o); f.read(n): at most n bytes, fewer at the end of the file
Read(f, o, n) ==
    IF o >= Len(f) THEN << >>
    ELSE SubSeq(f, o + 1, IF o + n > Len(f) THEN Len(f) ELSE o + n)

\* whether a read of n bytes at o is complete (struct.unpack raises otherwise)
CanRead(f, o, n) == o + n <= Len(f)

U16(f, o) == Unpack(Read(f, o, 2))
U64(f, o) == Unpack(Read(f, o, 8))

\* f.seek(o); f.write(bs) on a file opened 'rb+' (or a BytesIO): overwrite in
\* place, extending the file when the write runs past its end (a gap left by
\* seeking past the end reads as zero bytes)
\* (the file and the bytes are bound as ff and b so that each is evaluated once)
WriteAt(f, o, bs) ==
    CHOOSE r \in
        { [i \in 1..(IF o + Len(b) > Len(ff) THEN o + Len(b) ELSE Len(ff)) |->
              IF i > o /\ i <= o + Len(b) THEN b[i - o]
              ELSE IF i <= Len(ff) THEN ff[i] ELSE 0] : ff \in {f}, b \in {bs} } : TRUE

\* b'\0' * n
Zeros(n) == [i \in 1..n |-> 0]

\* b'sub' in s for two byte strings
Contains(s, sub) ==
    \E i \in 0..(Len(s) - Len(sub)) : SubSeq(s, i + 1, i + Len(sub)) = sub

----------------------------------------------------------------------------
(* utils/constants.py: the tables the reader imports.                       *)

\* the TIFF value types FORMAT_CHARACTERS has a struct format for
KnownTypes == {1, 2, 3, 4, 5, 6, 7, 8, 9, 10, 11, 12, 13, 16, 17, 18}

\* struct.calcsize('<' + FORMAT_CHARACTERS[t]): bytes of one element of type t
TypeSize(t) ==
    CASE t \in {1, 2, 6, 7} -> 1
      [] t \in {3, 8} -> 2
      [] t \in {4, 9, 11, 13} -> 4
      [] OTHER -> 8

\* TYPE_DICT.get(t) == 'ASCII'
IsAscii(t) == t = 2

\* COMPRESSION.get(code): the name of a compression code, "None" when absent
COMPRESSION(code) ==
    CASE code = 1 -> "Uncompressed"
      [] code = 5 -> "LZW"
      [] code = 6 -> "JPEG"
      [] code = 7 -> "JPEG 7"
      [] OTHER -> "None"

\* the bytes of 'label', 'Label', 'macro', 'Macro'
b_label == <<108, 97, 98, 101, 108>>
b_Label == <<76, 97, 98, 101, 108>>
b_macro == <<109, 97, 99, 114, 111>>
b_Macro == <<77, 97, 99, 114, 111>>

----------------------------------------------------------------------------
(* BigTiffFile: the reader.                                                 *)

\* bytes.decode('UTF-8') of the two marker bytes succeeds
DecodesUtf8(bs) ==
    \/ \A i \in 1..Len(bs) : bs[i] < 128
    \/ Len(bs) = 2 /\ bs[1] \in 194..223 /\ bs[2] \in 128..191

\* _read_header with the reserved field left unchecked
ReadHeaderNoReserved(f) ==
    LET marker == Read(f, 0, 2)
    IN  IF ~DecodesUtf8(marker)
          THEN [err |-> "UnicodeDecodeError", initial_offset |-> 0]
        ELSE IF ~CanRead(f, 2, 2) \/ ~CanRead(f, 4, 4) \/ ~CanRead(f, 8, 8)
          THEN [err |-> "struct.error", initial_offset |-> 0]
        ELSE IF marker # <<73, 73>> \/ U16(f, 2) # 43 \/ U16(f, 4) # 8
          THEN [err |-> "Exception", initial_offset |-> 0]
        ELSE [err |-> "none", initial_offset |-> U64(f, 8)]

\* BigTiffFile._read_header: the first directory's offset, or the exception
ReadHeader(f) ==
    LET marker == Read(f, 0, 2)
    IN  IF ~DecodesUtf8(marker)
          THEN [err |-> "UnicodeDecodeError", initial_offset |-> 0]
        ELSE IF ~CanRead(f, 2, 2) \/ ~CanRead(f, 4, 4) \/ ~CanRead(f, 8, 8)
          THEN [err |-> "struct.error", initial_offset |-> 0]
        ELSE IF marker # <<73, 73>> \/ U16(f, 2) # 43
                \/ U16(f, 4) # 8 \/ U16(f, 6) # 0
          THEN [err |-> "Exception", initial_offset |-> 0]
        ELSE [err |-> "none", initial_offset |-> U64(f, 8)]

\* struct.unpack('<' + str(count) + FORMAT_CHARACTERS[type], bs): the elements
Elems(bs, size, count) ==
    [i \in 1..count |-> Unpack(SubSeq(bs, (i - 1) * size + 1, i * size))]

\* BigTiffFile._ifd_value, called with the file positioned at pos: the decoded
\* value, the file position afterwards, or the exception.  data_offset is kept
\* as the 8 bytes of the slot; Unpack gives the number where the code uses it
\* as one.
\* The value is one of
\*   "tuple": a tuple of numbers;  "chars": a tuple of one-byte strings;
\*   "bytes": one byte string;     "str": the text 'Too long to display'.
IfdValue(f, pos, ifd_tag, ifd_type, ifd_count, pre_data_offset, data_offset) ==
    LET length == ifd_count * TypeSize(ifd_type)
        none == [kind |-> "str", elems |-> << >>]
    IN  IF ifd_type \notin KnownTypes
          THEN [err |-> "KeyError", pos |-> pos, value |-> none]
        ELSE IF length <= 8
          THEN IF ~CanRead(f, pre_data_offset, length)
                 THEN [err |-> "struct.error", pos |-> pre_data_offset, value |-> none]
               ELSE [err |-> "none", pos |-> pos,
                     value |-> [kind |-> IF IsAscii(ifd_type) THEN "chars" ELSE "tuple",
                                elems |-> Elems(Read(f, pre_data_offset, length),
                                                TypeSize(ifd_type), ifd_count)]]
        ELSE IF ifd_tag \in {270, 258}
          THEN IF ~CanRead(f, Unpack(data_offset), length)
                 THEN [err |-> "struct.error", pos |-> Unpack(data_offset),
                       value |-> none]
               ELSE [err |-> "none", pos |-> pos,
                     value |-> [kind |-> IF IsAscii(ifd_type) THEN "bytes" ELSE "tuple",
                                elems |-> Elems(Read(f, Unpack(data_offset), length),
                                                TypeSize(ifd_type), ifd_count)]]
        ELSE [err |-> "none", pos |-> pos, value |-> none]

\* IFD_info[tag] = entry
Put(info, tag, entry) ==
    [t \in (DOMAIN info) \cup {tag} |-> IF t = tag THEN entry ELSE info[t]]

RECURSIVE ReadEntries(_, _, _, _)
\* the loop of _read_IFDs: n entries left to read, the file positioned at pos
ReadEntries(f, pos, n, info) ==
    IF n = 0 THEN [err |-> "none", pos |-> pos, info |-> info]
    ELSE IF ~CanRead(f, pos, 12) \/ ~CanRead(f, pos + 12, 8)
      THEN [err |-> "struct.error", pos |-> pos, info |-> info]
    ELSE LET IFD_tag == U16(f, pos)
             IFD_type == U16(f, pos + 2)
             IFD_count == U64(f, pos + 4)
             pre_data_offset == pos + 12
             data_offset == Read(f, pre_data_offset, 8)
             v == IfdValue(f, pre_data_offset + 8, IFD_tag, IFD_type, IFD_count,
                           pre_data_offset, data_offset)
             entry == [pre_tag_offset |-> pos, ifd_type |-> IFD_type,
                       ifd_count |-> IFD_count,
                       pre_data_offset |-> pre_data_offset,
                       data_offset |-> data_offset, value |-> v.value]
         IN  IF v.err # "none" THEN [err |-> v.err, pos |-> v.pos, info |-> info]
             ELSE CHOOSE r \in { ReadEntries(f, p, n - 1, i) :
                                   p \in {v.pos}, i \in {Put(info, IFD_tag, entry)} } : TRUE

EmptyInfo == [t \in {} |-> 0]

\* _read_IFDs taking the last tag record's value slot for the next-directory
\* offset
ReadIFDNextMisread(f, directory_offset) ==
    IF ~CanRead(f, directory_offset, 8)
      THEN [err |-> "struct.error", info |-> EmptyInfo,
            pre_offset_offset |-> 0, next_ifd_offset |-> 0]
    ELSE CHOOSE r \in
           { IF es.err # "none"
               THEN [err |-> es.err, info |-> EmptyInfo,
                     pre_offset_offset |-> 0, next_ifd_offset |-> 0]
             ELSE [err |-> "none", info |-> es.info,
                   pre_offset_offset |-> es.pos - 8,
                   next_ifd_offset |-> U64(f, es.pos - 8)] :
             es \in {ReadEntries(f, directory_offset + 8,
                                 U64(f, directory_offset), EmptyInfo)} } : TRUE

\* BigTiffFile._read_IFDs without its assignments to self: the directory read
\* at directory_offset
ReadIFD(f, directory_offset) ==
    IF ~CanRead(f, directory_offset, 8)
      THEN [err |-> "struct.error", info |-> EmptyInfo,
            pre_offset_offset |-> 0, next_ifd_offset |-> 0]
    ELSE CHOOSE r \in
           { IF es.err # "none"
               THEN [err |-> es.err, info |-> EmptyInfo,
                     pre_offset_offset |-> 0, next_ifd_offset |-> 0]
             ELSE IF ~CanRead(f, es.pos, 8)
               THEN [err |-> "struct.error", info |-> EmptyInfo,
                     pre_offset_offset |-> 0, next_ifd_offset |-> 0]
             ELSE [err |-> "none", info |-> es.info,
                   pre_offset_offset |-> es.pos,
                   next_ifd_offset |-> U64(f, es.pos)] :
             es \in {ReadEntries(f, directory_offset + 8,
                                 U64(f, directory_offset), EmptyInfo)} } : TRUE

----------------------------------------------------------------------------
(* The container file contract: how the files the program is given are laid *)
(* out.  These build the inputs; the program only ever sees their bytes.    *)

\* the 16-byte header: 'II', version, offset size, reserved, first directory
HeaderBytes(marker, version, offset_size, reserved, first) ==
    marker \o Pack(version, 2) \o Pack(offset_size, 2) \o Pack(reserved, 2)
           \o Pack(first, 8)

Header(first) == HeaderBytes(<<73, 73>>, 43, 8, 0, first)

\* a value stored in the 8-byte slot itself, zero padded
Inline(bs) == bs \o Zeros(8 - Len(bs))

\* one 20-byte tag record
Entry(tag, type, count, slot) ==
    Pack(tag, 2) \o Pack(type, 2) \o Pack(count, 8) \o slot

RECURSIVE Concat(_)
Concat(ss) == IF ss = << >> THEN << >> ELSE Head(ss) \o Concat(Tail(ss))

\* a directory: entry count, the tag records, the next-directory offset
Dir(entries, next) == Pack(Len(entries), 8) \o Concat(entries) \o Pack(next, 8)

\* image descriptions (tag 270, ASCII): 'SVS label', 'Aperio SV', 'SVS macro'
\* are 9 bytes (stored externally), 'Label\0' is 6 bytes (stored in the slot)
DescText(d) ==
    CASE d = "label" -> <<83, 86, 83, 32>> \o b_label
      [] d = "other" -> <<65, 112, 101, 114, 105, 111, 32, 83, 86>>
      [] d = "macro" -> <<83, 86, 83, 32>> \o b_macro
      [] d = "short" -> b_Label \o <<0>>
      [] OTHER -> << >>

DescExternal(d) == Len(DescText(d)) > 8

\* an auxiliary image laid out at base: its strip, its external description,
\* then its directory (compression 259, description 270, strip offset 273,
\* strip byte count 279)
AuxStrip(first) == <<first, first + 1, first + 2>>
AuxDirOffset(base, d) ==
    base + 3 + (IF DescExternal(d) THEN Len(DescText(d)) ELSE 0)
AuxEntries(base, comp, d) ==
    <<Entry(259, 3, 1, Inline(Pack(comp, 2)))>>
    \o (IF d = "absent" THEN << >>
        ELSE <<Entry(270, 2, Len(DescText(d)),
                     IF DescExternal(d) THEN Pack(base + 3, 8)
                     ELSE Inline(DescText(d)))>>)
    \o <<Entry(273, 16, 1, Pack(base, 8)), Entry(279, 16, 1, Pack(3, 8))>>
AuxBlock(base, comp, d, first, next) ==
    AuxStrip(first) \o (IF DescExternal(d) THEN DescText(d) ELSE << >>)
                    \o Dir(AuxEntries(base, comp, d), next)
AuxLen(d) == Len(AuxBlock(0, 0, d, 0, 0))

\* a pyramid level laid out at base: two bytes of image data, then a
\* directory of one tag (strip offset 273)
PyramidBlock(base, j, next) ==
    <<200 + j, 100 + j>> \o Dir(<<Entry(273, 16, 1, Pack(base, 8))>>, next)
PyramidLen == Len(PyramidBlock(0, 0, 0))

\* Where the pieces of a target file lie.  The chain is always
\* pyramid 1 -> ... -> pyramid k -> label -> macro -> 0; with layout "chain"
\* the file holds them in that order, with layout "auxfirst" the label and the
\* macro lie before the pyramid levels.
LabelBase(in) == IF in.layout = "chain" THEN 16 + in.k * PyramidLen ELSE 16
MacroBase(in) == LabelBase(in) + AuxLen(in.ldesc)
PyramidBase(in, j) ==
    IF in.layout = "chain" THEN 16 + (j - 1) * PyramidLen
    ELSE MacroBase(in) + AuxLen(in.mdesc) + (j - 1) * PyramidLen
LabelDir(in) == AuxDirOffset(LabelBase(in), in.ldesc)
MacroDir(in) == AuxDirOffset(MacroBase(in), in.mdesc)
PyramidDir(in, j) == PyramidBase(in, j) + 2

\* the offsets of the directories in chain order
Chain(in) ==
    [j \in 1..(in.k + 2) |->
        IF j <= in.k THEN PyramidDir(in, j)
        ELSE IF j = in.k + 1 THEN LabelDir(in) ELSE MacroDir(in)]

Pyramids(in) ==
    Concat([j \in 1..in.k |-> PyramidBlock(PyramidBase(in, j), j, Chain(in)[j + 1])])
AuxImages(in) ==
    AuxBlock(LabelBase(in), in.lcomp, in.ldesc, 11, MacroDir(in))
    \o AuxBlock(MacroBase(in), in.mcomp, in.mdesc, 21, 0)

TargetFile(in) ==
    Header(Chain(in)[1])
    \o (IF in.layout = "chain" THEN Pyramids(in) \o AuxImages(in)
        ELSE AuxImages(in) \o Pyramids(in))

Inputs ==
    { in \in [k : 0..MaxPyramid, layout : {"chain", "auxfirst"},
              lcomp : {5, 1}, ldesc : {"absent", "label", "other", "short"},
              mcomp : {7, 1}, mdesc : {"absent", "macro"}] :
        in.layout = "auxfirst" => in.k > 0 }

----------------------------------------------------------------------------
(* BigTiffFile: the label and macro locator.                                *)

\* self._label / self._macro: None, or the dictionary of lines 173-178
NoDescriptor ==
    [set |-> FALSE, directory |-> 0, strip_offset |-> 0, strip_byte_counts |-> 0]

\* b'...' in image_description: "TypeError" when image_description is None
\* (tag 270 absent) or the text 'Too long to display'; a tuple (a value decoded
\* from the slot) holds one-byte items, none of which equals a 5-byte string
InDescription(sub, info) ==
    IF 270 \notin DOMAIN info THEN "TypeError"
    ELSE LET v == info[270].value
         IN  CASE v.kind = "bytes" -> IF Contains(v.elems, sub) THEN "True" ELSE "False"
               [] v.kind = "str" -> "TypeError"
               [] OTHER -> "False"

\* the condition of line 172 (names: 'LZW', subs: label, Label) and of line 186
\* (names: 'JPEG', 'JPEG 7', subs: macro, Macro), evaluated left to right
Accepts(info, names, sub1, sub2) ==
    IF COMPRESSION(Unpack(info[259].data_offset)) \in names THEN "True"
    ELSE IF InDescription(sub1, info) # "False" THEN InDescription(sub1, info)
    ELSE InDescription(sub2, info)

\* the dictionary built at lines 173-178 and 187-192
Descriptor(d, info) ==
    [set |-> TRUE, directory |-> d,
     strip_offset |-> Unpack(info[273].data_offset),
     strip_byte_counts |-> Unpack(info[279].data_offset)]

\* one half of _get_label_and_macro_info: the candidate directory d
Candidate(info_of, d, names, sub1, sub2) ==
    IF d \notin DOMAIN info_of THEN [err |-> "KeyError", desc |-> NoDescriptor]
    ELSE IF 259 \notin DOMAIN info_of[d] THEN [err |-> "KeyError", desc |-> NoDescriptor]
    ELSE LET a == Accepts(info_of[d], names, sub1, sub2)
         IN  IF a = "TypeError" THEN [err |-> "TypeError", desc |-> NoDescriptor]
             ELSE IF a = "False" THEN [err |-> "none", desc |-> NoDescriptor]
             ELSE IF {273, 279} \subseteq DOMAIN info_of[d]
               THEN [err |-> "none", desc |-> Descriptor(d, info_of[d])]
             ELSE [err |-> "KeyError", desc |-> NoDescriptor]

\* the candidate label is the second to last directory
ProposedLabel(info_of) == Cardinality(DOMAIN info_of) - 1
ProposedMacro(info_of) == Cardinality(DOMAIN info_of)

\* BigTiffFile._get_label_and_macro_info
LabelAndMacroInfo(info_of) ==
    LET l == Candidate(info_of, ProposedLabel(info_of), {"LZW"}, b_label, b_Label)
        m == Candidate(info_of, ProposedMacro(info_of), {"JPEG", "JPEG 7"},
                       b_macro, b_Macro)
    IN  IF l.err # "none"
          THEN [err |-> l.err, label |-> NoDescriptor, macro |-> NoDescriptor]
        ELSE [err |-> m.err, label |-> l.desc, macro |-> m.desc]

----------------------------------------------------------------------------
(* BigTiffFile.de_identify_slide.                                           *)

\* the two writes of lines 61-65, one byte too many each
ZeroFillOneMore(f, l, m) ==
    WriteAt(WriteAt(f, l.strip_offset, Zeros(l.strip_byte_counts + 1)),
            m.strip_offset, Zeros(m.strip_byte_counts + 1))

\* the two writes of lines 61-65
ZeroFill(f, l, m) ==
    WriteAt(WriteAt(f, l.strip_offset, Zeros(l.strip_byte_counts)),
            m.strip_offset, Zeros(m.strip_byte_counts))

\* de_identify_slide on the file f of a path that is protected or not:
\* subscripting a descriptor that is None raises TypeError
DeIdentify(f, l, m, prot) ==
    IF ~l.set \/ ~m.set THEN [err |-> "TypeError", disk |-> f]
    ELSE IF prot THEN [err |-> "RuntimeError", disk |-> f]
    ELSE [err |-> "none", disk |-> ZeroFill(f, l, m)]

----------------------------------------------------------------------------
(* utils/tiffwriter.py, BigTiffMaker.create_image: the replacement blobs.   *)
(* A blob is a container of its own: the header, one directory at offset   *)
(* 16 whose next-directory offset is 0, then the data it points to.         *)

BlobDirLen == Len(Dir(<<Entry(0, 0, 0, Zeros(8)), Entry(0, 0, 0, Zeros(8)),
                        Entry(0, 0, 0, Zeros(8)), Entry(0, 0, 0, Zeros(8))>>, 0))

\* the tag records of a label blob with a strip of n bytes: compression LZW,
\* a 9-byte description (external), strip offset, strip byte count
LabelBlobEntries(n) ==
    <<Entry(259, 3, 1, Inline(Pack(5, 2))),
      Entry(270, 2, 9, Pack(16 + BlobDirLen, 8)),
      Entry(273, 16, 1, Pack(16 + BlobDirLen + 9, 8)),
      Entry(279, 16, 1, Pack(n, 8))>>

LabelBlob(n) ==
    Header(16) \o Dir(LabelBlobEntries(n), 0) \o DescText("label")
               \o [i \in 1..n |-> 100 + i]

\* the tag records of a macro blob with a strip of n bytes: four 2-byte
\* bits-per-sample values (exactly 8 bytes, in the slot), compression JPEG,
\* strip offset, strip byte count
MacroBlobEntries(n) ==
    <<Entry(258, 3, 4, <<8, 0, 8, 0, 8, 0, 8, 0>>),
      Entry(259, 3, 1, Inline(Pack(7, 2))),
      Entry(273, 16, 1, Pack(16 + BlobDirLen, 8)),
      Entry(279, 16, 1, Pack(n, 8))>>

MacroBlob(n) ==
    Header(16) \o Dir(MacroBlobEntries(n), 0) \o [i \in 1..n |-> 150 + i]

----------------------------------------------------------------------------
(* SubImage.update_ifd: the offset patcher.                                 *)

RECURSIVE ReadChain(_, _, _, _)
\* the loop of BigTiffFile.__init__ on a BytesIO: directories n+1, n+2, ...
\* from offset off on; acc maps each directory read so far to its ReadIFD
ReadChain(f, off, n, acc) ==
    IF off = 0 THEN [err |-> "none", dirs |-> acc]
    ELSE CHOOSE r \in
           { IF d.err # "none" THEN [err |-> d.err, dirs |-> acc]
             ELSE ReadChain(f, d.next_ifd_offset, n + 1, Put(acc, n + 1, d)) :
             d \in {ReadIFD(f, off)} } : TRUE

\* BigTiffFile(file) for a BytesIO
OpenBlob(f) ==
    LET h == ReadHeader(f)
    IN  IF h.err # "none" THEN [err |-> h.err, dirs |-> EmptyInfo]
        ELSE ReadChain(f, h.initial_offset, 0, EmptyInfo)

\* line 356 without the strip-offset tag
NeedsPatchExternalOnly(tag, e) == e.ifd_count * TypeSize(e.ifd_type) > 8

\* line 356: length > struct.calcsize('<Q') or tag == 273
NeedsPatch(tag, e) == e.ifd_count * TypeSize(e.ifd_type) > 8 \/ tag = 273

\* line 360 without the header correction
NewOffsetNoHeader(data_offset, offset_adjustment) == data_offset + offset_adjustment

\* line 360
NewOffset(data_offset, offset_adjustment) == data_offset + offset_adjustment - 16

RECURSIVE PatchTags(_, _, _, _)
\* the loop of lines 349-364 over the tags left, in the order of the file
PatchTags(f, info, tags, offset_adjustment) ==
    IF tags = {} THEN [err |-> "none", file |-> f]
    ELSE LET tag == CHOOSE t \in tags :
                      \A u \in tags : info[t].pre_tag_offset <= info[u].pre_tag_offset
             e == info[tag]
             new_offset == NewOffset(Unpack(e.data_offset), offset_adjustment)
         IN  IF ~NeedsPatch(tag, e)
               THEN PatchTags(f, info, tags \ {tag}, offset_adjustment)
             ELSE IF new_offset < 0 THEN [err |-> "struct.error", file |-> f]
             ELSE CHOOSE r \in
                    { PatchTags(g, info, tags \ {tag}, offset_adjustment) :
                      g \in {WriteAt(f, e.pre_data_offset, Pack(new_offset, 8))} } : TRUE

\* line 371 with the blob's header counted out
NewNextIfdNoHeader(file, offset_adjustment) == Len(file) - 16 + offset_adjustment

\* line 371: end_of_file + offset_adjustment
NewNextIfd(file, offset_adjustment) == Len(file) + offset_adjustment

\* SubImage.update_ifd: the patched file, and self._label_offset_adjustment
\* (0 stands for None)
UpdateIfd(file, offset_adjustment, file_type) ==
    LET fail(e) == [err |-> e, file |-> file, offset_adjustment |-> 0]
        Patched(t) ==
            CHOOSE r \in
              { IF p.err # "none" THEN fail(p.err)
                ELSE IF file_type = "label"
                  THEN [err |-> "none",
                        file |-> WriteAt(p.file, t.dirs[1].pre_offset_offset,
                                         Pack(NewNextIfd(p.file, offset_adjustment), 8)),
                        offset_adjustment |-> NewNextIfd(p.file, offset_adjustment)]
                ELSE [err |-> "none", file |-> p.file, offset_adjustment |-> 0] :
                p \in {PatchTags(file, t.dirs[1].info, DOMAIN t.dirs[1].info,
                                 offset_adjustment)} } : TRUE
    IN  CHOOSE r \in
          { IF t.err # "none" THEN fail(t.err)
            ELSE IF 1 \notin DOMAIN t.dirs THEN fail("KeyError")
            ELSE Patched(t) : t \in {OpenBlob(file)} } : TRUE

----------------------------------------------------------------------------
(* LabelSwitcher.switch_labels: the splice.                                 *)

\* label_data / macro_data: the blob from byte 16 on
Body(img) == SubSeq(img, 17, Len(img))

\* lines 414-425 with the macro written right behind the label
SpliceAdjacent(f, slide_off, limg, next_off, mimg) ==
    WriteAt(WriteAt(f, slide_off, Body(limg)), slide_off + Len(Body(limg)), Body(mimg))

\* lines 414-425: the label body at _slide_offset_adjustment, then the macro
\* body at _next_ifd_offset_adjustment
Splice(f, slide_off, limg, next_off, mimg) ==
    WriteAt(WriteAt(f, slide_off, Body(limg)), next_off, Body(mimg))

----------------------------------------------------------------------------
(* The state machine: one BigTiffFile is opened on the target file, then    *)
(* either de_identify_slide is called on it, or it is the BigTiffFile of    *)
(* LabelSwitcher._get_slide_offset and the LabelSwitcher goes on.           *)

NoFile ==
    /\ next_offset = 0
    /\ tiff_info = EmptyInfo
    /\ directory_offsets = EmptyInfo
    /\ next_dir_offsets = EmptyInfo
    /\ directory_count = 0
    /\ label = NoDescriptor
    /\ macro = NoDescriptor

NoSwitcher ==
    /\ remove = FALSE
    /\ slide_offset_adjustment = 0
    /\ next_ifd_offset_adjustment = 0
    /\ label_img = << >>
    /\ macro_img = << >>
    /\ label_raw = << >>
    /\ macro_raw = << >>

NoBatch == batch = << >> /\ row = 0 /\ handled = << >>

\* a target file of the container contract, on a protected path or not
Init ==
    /\ input \in Inputs
    /\ protected \in BOOLEAN
    /\ disk = TargetFile(input)
    /\ disk0 = disk
    /\ pc = "start"
    /\ err = "none"
    /\ raised_in = "none"
    /\ NoFile /\ NoSwitcher /\ NoBatch

Raise(e, where) == pc' = "raised" /\ err' = e /\ raised_in' = where
NoRaise == UNCHANGED <<err, raised_in>>

\* BigTiffFile.__init__, line 44: next_offset = self._read_header(bigtiff)
read_header ==
    /\ pc = "start"
    /\ LET h == ReadHeader(disk)
       IN  IF h.err # "none"
             THEN Raise(h.err, "_read_header") /\ UNCHANGED next_offset
           ELSE pc' = "walk" /\ next_offset' = h.initial_offset /\ NoRaise
    /\ UNCHANGED <<input, protected, disk, disk0, tiff_info, directory_offsets,
                   next_dir_offsets, directory_count, label, macro>>
    /\ UNCHANGED switchVars /\ UNCHANGED batchVars

\* BigTiffFile.__init__, lines 45-46: one turn of the loop, _read_IFDs
read_IFDs ==
    /\ pc = "walk"
    /\ next_offset # 0
    /\ directory_count' = directory_count + 1
    /\ \E d \in {ReadIFD(disk, next_offset)} :
           IF d.err # "none"
             THEN /\ Raise(d.err, "_read_IFDs")
                  /\ UNCHANGED <<next_offset, tiff_info, directory_offsets,
                                 next_dir_offsets>>
           ELSE /\ tiff_info' = Put(tiff_info, directory_count', d.info)
                /\ directory_offsets' = Put(directory_offsets, directory_count',
                                            next_offset)
                /\ next_dir_offsets' =
                      Put(next_dir_offsets, directory_count',
                          [pre_offset_offset |-> d.pre_offset_offset,
                           next_ifd_offset |-> d.next_ifd_offset,
                           directory_offset |-> next_offset])
                /\ next_offset' = d.next_ifd_offset
                /\ UNCHANGED pc /\ NoRaise
    /\ UNCHANGED <<input, protected, disk, disk0, label, macro>>
    /\ UNCHANGED switchVars /\ UNCHANGED batchVars

\* BigTiffFile.__init__, line 47: self._get_label_and_macro_info()
get_label_and_macro_info ==
    /\ pc = "walk"
    /\ next_offset = 0
    /\ \E r \in {LabelAndMacroInfo(tiff_info)} :
           IF r.err # "none"
             THEN Raise(r.err, "_get_label_and_macro_info")
                  /\ UNCHANGED <<label, macro>>
           ELSE /\ pc' = "opened"
                /\ label' = r.label
                /\ macro' = r.macro
                /\ NoRaise
    /\ UNCHANGED <<input, protected, disk, disk0, next_offset, tiff_info,
                   directory_offsets, next_dir_offsets, directory_count>>
    /\ UNCHANGED switchVars /\ UNCHANGED batchVars

\* BigTiffFile.de_identify_slide, called on the opened file
de_identify_slide ==
    /\ pc = "opened"
    /\ \E r \in {DeIdentify(disk, label, macro, protected)} :
           IF r.err # "none"
             THEN Raise(r.err, "de_identify_slide") /\ UNCHANGED disk
           ELSE pc' = "zeroed" /\ disk' = r.disk /\ NoRaise
    /\ UNCHANGED <<input, protected, disk0>>
    /\ UNCHANGED fileVars /\ UNCHANGED switchVars /\ UNCHANGED batchVars

\* LabelSwitcher.__init__, line 409: _get_slide_offset on the opened file
get_slide_offset ==
    /\ pc = "opened"
    /\ \E rm \in BOOLEAN :
        /\ remove' = rm
        /\ \E r \in {IF rm THEN DeIdentify(disk, label, macro, protected)
                      ELSE [err |-> "none", disk |-> disk]} :
               IF r.err # "none"
                 THEN Raise(r.err, "de_identify_slide")
                      /\ UNCHANGED <<disk, slide_offset_adjustment>>
               ELSE /\ disk' = r.disk
                    /\ IF ~label.set
                         THEN Raise("TypeError", "label_IFD_offset_adjustment")
                              /\ UNCHANGED slide_offset_adjustment
                       ELSE /\ pc' = "label_img"
                            /\ slide_offset_adjustment' =
                                  directory_offsets[label.directory]
                            /\ NoRaise
    /\ UNCHANGED <<input, protected, disk0, next_ifd_offset_adjustment,
                   label_img, macro_img, label_raw, macro_raw>>
    /\ UNCHANGED fileVars /\ UNCHANGED batchVars

\* LabelSwitcher.__init__, line 410: _get_label_img
get_label_img ==
    /\ pc = "label_img"
    /\ \E n \in 1..MaxStrip :
        /\ label_raw' = LabelBlob(n)
        /\ \E u \in {UpdateIfd(label_raw', slide_offset_adjustment, "label")} :
               IF u.err # "none"
                 THEN Raise(u.err, "update_ifd")
                      /\ UNCHANGED <<label_img, next_ifd_offset_adjustment>>
               ELSE /\ pc' = "macro_img"
                    /\ label_img' = u.file
                    /\ next_ifd_offset_adjustment' = u.offset_adjustment
                    /\ NoRaise
    /\ UNCHANGED <<input, protected, disk, disk0, remove, slide_offset_adjustment,
                   macro_img, macro_raw>>
    /\ UNCHANGED fileVars /\ UNCHANGED batchVars

\* LabelSwitcher.__init__, line 411: _get_macro_img
get_macro_img ==
    /\ pc = "macro_img"
    /\ \E n \in 1..MaxStrip :
        /\ macro_raw' = MacroBlob(n)
        /\ \E u \in {UpdateIfd(macro_raw', next_ifd_offset_adjustment, "macro")} :
               IF u.err # "none"
                 THEN Raise(u.err, "update_ifd") /\ UNCHANGED macro_img
               ELSE pc' = "constructed" /\ macro_img' = u.file /\ NoRaise
    /\ UNCHANGED <<input, protected, disk, disk0, remove, slide_offset_adjustment,
                   next_ifd_offset_adjustment, label_img, label_raw>>
    /\ UNCHANGED fileVars /\ UNCHANGED batchVars

\* LabelSwitcher.switch_labels
switch_labels ==
    /\ pc = "constructed"
    /\ disk' = Splice(disk, slide_offset_adjustment, label_img,
                      next_ifd_offset_adjustment, macro_img)
    /\ pc' = "switched"
    /\ UNCHANGED <<input, protected, disk0, err, raised_in>>
    /\ UNCHANGED fileVars /\ UNCHANGED switchVars /\ UNCHANGED batchVars

Next ==
    \/ read_header
    \/ read_IFDs
    \/ get_label_and_macro_info
    \/ de_identify_slide
    \/ get_slide_offset
    \/ get_label_img
    \/ get_macro_img
    \/ switch_labels

Spec == Init /\ [][Next]_vars

----------------------------------------------------------------------------
(* _read_header alone, on 16-byte headers whose fields are right or wrong.  *)

\* marker bytes: 'II', 'MM', 'I*', and two bytes that are not UTF-8
Markers == {<<73, 73>>, <<77, 77>>, <<73, 42>>, <<255, 254>>}

HeaderInputs ==
    [marker : Markers, version : {42, 43, 44}, offset_size : {4, 8, 16},
     reserved : {0, 1}, first : {0, 16, 1000}]

HeaderInit ==
    /\ input \in HeaderInputs
    /\ protected = FALSE
    /\ disk = HeaderBytes(input.marker, input.version, input.offset_size,
                          input.reserved, input.first)
    /\ disk0 = disk
    /\ pc = "start"
    /\ err = "none"
    /\ raised_in = "none"
    /\ NoFile /\ NoSwitcher /\ NoBatch

HeaderNext == read_header

HeaderSpec == HeaderInit /\ [][HeaderNext]_vars

----------------------------------------------------------------------------
(* _ifd_value alone: a file of one directory whose first tag record is the  *)
(* record under test, of a tag, a type and a count that put its value in    *)
(* the slot or behind a pointer, followed by one more record.               *)

\* tags 256 (image width), 258, 270, 273, 279; types ASCII, SHORT, LONG8
ValueInputs == [tag : {256, 258, 270, 273, 279}, type : {2, 3, 16},
                count : {1, 2, 4, 8, 9}]

\* the value of the record: count elements 41, 42, ... of the type's size
ValueData(v) ==
    Concat([i \in 1..v.count |-> Pack(40 + i, TypeSize(v.type))])

\* the file: header, the directory at 16 (the record under test, then sample
\* format = 1), and the value behind the directory when it is longer than
\* the slot
ValueFile(v) ==
    LET external == Len(ValueData(v)) > 8
        slot == IF external THEN Pack(16 + 8 + 2 * 20 + 8, 8)
                ELSE Inline(ValueData(v))
    IN  Header(16)
        \o Dir(<<Entry(v.tag, v.type, v.count, slot),
                 Entry(339, 3, 1, Inline(Pack(1, 2)))>>, 0)
        \o (IF external THEN ValueData(v) ELSE << >>)

ValueInit ==
    /\ input \in ValueInputs
    /\ protected = FALSE
    /\ disk = ValueFile(input)
    /\ disk0 = disk
    /\ pc = "start"
    /\ err = "none"
    /\ raised_in = "none"
    /\ NoFile /\ NoSwitcher /\ NoBatch

\* the file is opened and its directory read, each tag record through
\* _ifd_value
ValueNext == read_header \/ read_IFDs

ValueSpec == ValueInit /\ [][ValueNext]_vars

----------------------------------------------------------------------------
(* The label switch write by write: every seek and write on the target file *)
(* is a step of its own, so that the file is seen between any two of them   *)
(* (the process may end there).  Opening the file and patching the blobs    *)
(* are the steps of Next.                                                   *)

\* lines 62-63 left out: the label strip is not written
ZeroLabelStripSkipped(f, l) == f

\* de_identify_slide, lines 62-63: tiff.seek(label_strip_offset); tiff.write
ZeroLabelStrip(f, l) == WriteAt(f, l.strip_offset, Zeros(l.strip_byte_counts))

\* de_identify_slide, lines 64-65: tiff.seek(macro_strip_offset); tiff.write
ZeroMacroStrip(f, m) == WriteAt(f, m.strip_offset, Zeros(m.strip_byte_counts))

\* switch_labels, lines 416-420
WriteLabel(f, slide_off, limg) == WriteAt(f, slide_off, Body(limg))

\* switch_labels, lines 422-425
WriteMacro(f, next_off, mimg) == WriteAt(f, next_off, Body(mimg))

\* _get_slide_offset(True) up to the first write of de_identify_slide
de_identify_label_strip ==
    /\ pc = "opened"
    /\ remove' = TRUE
    /\ \E r \in {DeIdentify(disk, label, macro, protected)} :
           IF r.err # "none"
             THEN Raise(r.err, "de_identify_slide") /\ UNCHANGED disk
           ELSE /\ pc' = "removing"
                /\ disk' = ZeroLabelStrip(disk, label)
                /\ NoRaise
    /\ UNCHANGED <<input, protected, disk0, slide_offset_adjustment,
                   next_ifd_offset_adjustment, label_img, macro_img,
                   label_raw, macro_raw>>
    /\ UNCHANGED fileVars /\ UNCHANGED batchVars

\* the second write of de_identify_slide, then line 431
de_identify_macro_strip ==
    /\ pc = "removing"
    /\ disk' = ZeroMacroStrip(disk, macro)
    /\ pc' = "label_img"
    /\ slide_offset_adjustment' = directory_offsets[label.directory]
    /\ NoRaise
    /\ UNCHANGED <<input, protected, disk0, remove, next_ifd_offset_adjustment,
                   label_img, macro_img, label_raw, macro_raw>>
    /\ UNCHANGED fileVars /\ UNCHANGED batchVars

\* _get_slide_offset(False): line 431 alone
label_IFD_offset_adjustment ==
    /\ pc = "opened"
    /\ remove' = FALSE
    /\ IF ~label.set
         THEN Raise("TypeError", "label_IFD_offset_adjustment")
              /\ UNCHANGED slide_offset_adjustment
       ELSE /\ pc' = "label_img"
            /\ slide_offset_adjustment' = directory_offsets[label.directory]
            /\ NoRaise
    /\ UNCHANGED <<input, protected, disk, disk0, next_ifd_offset_adjustment,
                   label_img, macro_img, label_raw, macro_raw>>
    /\ UNCHANGED fileVars /\ UNCHANGED batchVars

\* _create_label, lines 291-298: neither font file is found, sys.exit()
create_label_exits ==
    /\ pc = "label_img"
    /\ Raise("SystemExit", "_create_label")
    /\ UNCHANGED <<input, protected, disk, disk0>>
    /\ UNCHANGED fileVars /\ UNCHANGED switchVars /\ UNCHANGED batchVars

\* switch_labels, lines 414-420: the label body
switch_labels_label ==
    /\ pc = "constructed"
    /\ disk' = WriteLabel(disk, slide_offset_adjustment, label_img)
    /\ pc' = "switching"
    /\ UNCHANGED <<input, protected, disk0, err, raised_in>>
    /\ UNCHANGED fileVars /\ UNCHANGED switchVars /\ UNCHANGED batchVars

\* switch_labels, lines 422-425: the macro body
switch_labels_macro ==
    /\ pc = "switching"
    /\ disk' = WriteMacro(disk, next_ifd_offset_adjustment, macro_img)
    /\ pc' = "switched"
    /\ UNCHANGED <<input, protected, disk0, err, raised_in>>
    /\ UNCHANGED fileVars /\ UNCHANGED switchVars /\ UNCHANGED batchVars

OrderNext ==
    \/ read_header
    \/ read_IFDs
    \/ get_label_and_macro_info
    \/ de_identify_label_strip
    \/ de_identify_macro_strip
    \/ label_IFD_offset_adjustment
    \/ create_label_exits
    \/ get_label_img
    \/ get_macro_img
    \/ switch_labels_label
    \/ switch_labels_macro

OrderSpec == Init /\ [][OrderNext]_vars

----------------------------------------------------------------------------
(* switch_labels_from_file: the batch driver.  A row of the table is what   *)
(* the loop body looks at: whether its slide path holds 'DigitalPathology', *)
(* whether int(stem[:5]) is a number ("old": below 563, "new": not below,   *)
(* "bad": ValueError), whether its text fields are strings (len() of a     *)
(* float raises TypeError), and whether LabelSwitcher(...).switch_labels()  *)
(* raises on its slide.                                                     *)

Rows ==
    { r \in [prot : BOOLEAN, stem : {"new", "old", "bad"},
             text : {"str", "float"}, slide : {"ok", "raises"}] :
        \* at most one thing wrong with a row
        Cardinality({x \in {1, 2, 3, 4} :
            \/ x = 1 /\ r.prot
            \/ x = 2 /\ r.stem # "new"
            \/ x = 3 /\ r.text = "float"
            \/ x = 4 /\ r.slide = "raises"}) <= 1 }

RECURSIVE Tables(_)
\* the tables of n rows
Tables(n) ==
    IF n = 0 THEN {<< >>}
    ELSE {Append(t, r) : t \in Tables(n - 1), r \in Rows}

BatchInit ==
    /\ input \in {"csv", "xlsx", "txt"}
    /\ \E n \in 1..MaxRows : batch \in Tables(n)
    /\ row = 1
    /\ handled = << >>
    /\ pc = "read_table"
    /\ err = "none"
    /\ raised_in = "none"
    /\ protected = FALSE
    /\ disk = << >>
    /\ disk0 = << >>
    /\ NoFile /\ NoSwitcher

\* the body of the loop of lines 466-514 on one row: the exception that leaves
\* the loop, or what was done with the row
RowOutcome(r) ==
    IF r.prot THEN [err |-> "RuntimeError", done |-> "none"]
    ELSE IF r.text = "float" THEN [err |-> "TypeError", done |-> "none"]
    ELSE IF r.stem = "bad" THEN [err |-> "ValueError", done |-> "none"]
    ELSE IF r.stem = "old" THEN [err |-> "none", done |-> "skipped"]
    ELSE IF r.slide = "raises" THEN [err |-> "none", done |-> "caught"]
    ELSE [err |-> "none", done |-> "switched"]

\* lines 459-464: the table is read, or its suffix is refused
read_table ==
    /\ pc = "read_table"
    /\ IF input \in {"csv", "xlsx"}
         THEN pc' = "rows" /\ NoRaise
       ELSE Raise("Exception", "switch_labels_from_file")
    /\ UNCHANGED <<input, protected, disk, disk0>>
    /\ UNCHANGED fileVars /\ UNCHANGED switchVars /\ UNCHANGED batchVars

\* lines 466-514: one turn of the loop
next_row ==
    /\ pc = "rows"
    /\ row <= Len(batch)
    /\ LET o == RowOutcome(batch[row])
       IN  IF o.err # "none"
             THEN Raise(o.err, "switch_labels_from_file") /\ UNCHANGED <<row, handled>>
           ELSE /\ handled' = Append(handled, o.done)
                /\ row' = row + 1
                /\ pc' = IF row = Len(batch) THEN "returned" ELSE "rows"
                /\ NoRaise
    /\ UNCHANGED <<input, protected, disk, disk0, batch>>
    /\ UNCHANGED fileVars /\ UNCHANGED switchVars

BatchNext == read_table \/ next_row

BatchSpec == BatchInit /\ [][BatchNext]_vars

----------------------------------------------------------------------------
(* The claims.                                                              *)

\* what the target file was built with: the strips of its label and macro
LabelStrip(o) == o >= LabelBase(input) /\ o < LabelBase(input) + 3
MacroStrip(o) == o >= MacroBase(input) /\ o < MacroBase(input) + 3

\* de_identify_slide has run to its end
ZeroFilled == pc = "zeroed" \/ (pc = "label_img" /\ remove)

\* C1: after de_identify_slide on a file whose label and macro descriptors
\* are set and whose path is not protected, exactly the bytes of the label
\* strip and of the macro strip are zero, every other byte is what it was, and
\* the file is as long as it was.
C1_ZeroFillExact ==
    ZeroFilled =>
        /\ Len(disk) = Len(disk0)
        /\ \A i \in 1..Len(disk0) :
              disk[i] = IF LabelStrip(i - 1) \/ MacroStrip(i - 1) THEN 0 ELSE disk0[i]

C1_Witness ==
    /\ pc = "zeroed"
    /\ label.set /\ macro.set /\ ~protected
    /\ disk # disk0
    /\ \A o \in 0..(Len(disk0) - 1) : LabelStrip(o) => disk0[o + 1] # 0

\* C2: on a protected path neither de_identify_slide nor a LabelSwitcher
\* followed by switch_labels (with either value of
\* remove_original_label_and_macro) runs to its end, and no byte of the file
\* is ever written.
C2_ProtectedNeverWritten ==
    protected => disk = disk0 /\ pc \notin {"zeroed", "switched"}

\* the replacement bodies switch_labels writes, and where the label goes
P_label == LabelDir(input)
L_label == Len(Body(label_img))
M_macro == Len(Body(macro_img))

\* C3 as claimed: after switch_labels the label body lies at [P, P+L), the
\* macro body right behind it at [P+L, P+L+M), and the file is at least
\* P+L+M bytes long.
C3_MacroAdjacent ==
    pc = "switched" =>
        /\ Read(disk, P_label, L_label) = Body(label_img)
        /\ Read(disk, P_label + L_label, M_macro) = Body(macro_img)
        /\ Len(disk) >= P_label + L_label + M_macro

\* C3 as amended: after switch_labels the label body lies at [P, P+L), the
\* macro body lies 16 bytes behind its end, at [P+L+16, P+L+16+M), and the
\* file is at least P+L+16+M bytes long.
C3_MacroAfterGap ==
    pc = "switched" =>
        /\ Read(disk, P_label, L_label) = Body(label_img)
        /\ Read(disk, P_label + L_label + 16, M_macro) = Body(macro_img)
        /\ Len(disk) >= P_label + L_label + 16 + M_macro

C3_Witness ==
    /\ pc = "switched"
    /\ L_label > 0 /\ M_macro > 0
    /\ Read(disk, P_label + L_label, M_macro) # Body(macro_img)

RECURSIVE Visit(_, _, _)
\* the directories a reader meets walking f's chain from offset off, at most
\* n of them: each with the offset it was read at
Visit(f, off, n) ==
    IF off = 0 \/ n = 0 THEN << >>
    ELSE LET d == ReadIFD(f, off)
         IN  IF d.err # "none" THEN <<[at |-> off, ok |-> FALSE, dir |-> d]>>
             ELSE <<[at |-> off, ok |-> TRUE, dir |-> d]>>
                  \o Visit(f, d.next_ifd_offset, n - 1)

\* the walk of a file from its header
WalkOf(f) ==
    IF ReadHeader(f).err # "none" THEN << >>
    ELSE Visit(f, ReadHeader(f).initial_offset, input.k + 3)

\* directory d is the blob's directory b moved to offset at: the same tags
\* with the same types and counts, each 16 - at bytes further on
SameDirectory(d, b, at) ==
    /\ d.ok
    /\ d.at = at
    /\ DOMAIN d.dir.info = DOMAIN b.info
    /\ \A t \in DOMAIN b.info :
          /\ d.dir.info[t].ifd_type = b.info[t].ifd_type
          /\ d.dir.info[t].ifd_count = b.info[t].ifd_count
          /\ d.dir.info[t].pre_tag_offset = b.info[t].pre_tag_offset - 16 + at

\* the bytes a pointer tag of a blob's directory points to: the external
\* value, or for the strip offset tag the strip
TargetLen(info, t) ==
    IF t = 273 /\ info[t].ifd_count * TypeSize(info[t].ifd_type) <= 8
      THEN Unpack(info[279].data_offset)
    ELSE info[t].ifd_count * TypeSize(info[t].ifd_type)

\* every pointer of d addresses the bytes of the target file that were
\* spliced from what that pointer addressed in the blob raw
PointersFollow(d, b, raw) ==
    \A t \in DOMAIN b.info :
        (b.info[t].ifd_count * TypeSize(b.info[t].ifd_type) > 8 \/ t = 273) =>
            /\ CanRead(disk, Unpack(d.dir.info[t].data_offset), TargetLen(b.info, t))
            /\ Read(disk, Unpack(d.dir.info[t].data_offset), TargetLen(b.info, t))
                 = Read(raw, Unpack(b.info[t].data_offset), TargetLen(b.info, t))

\* the chain of the target file is the original directories 1..D-2, the
\* replacement label directory at P, the replacement macro directory at the
\* label's next-directory offset, and then the end
ChainValid ==
    LET w == WalkOf(disk)
        w0 == WalkOf(disk0)
        lb == ReadIFD(label_raw, 16)
        mb == ReadIFD(macro_raw, 16)
        D == input.k + 2
    IN  /\ Len(w) = D
        /\ \A j \in 1..(D - 2) : w[j] = w0[j]
        /\ SameDirectory(w[D - 1], lb, P_label)
        /\ SameDirectory(w[D], mb, w[D - 1].dir.next_ifd_offset)
        /\ w[D].dir.next_ifd_offset = 0
        /\ PointersFollow(w[D - 1], lb, label_raw)
        /\ PointersFollow(w[D], mb, macro_raw)

\* every byte of the header and of directories 1..D-2 lies before the label
\* directory
AuxiliaryLast == input.layout = "chain"

\* C4 as claimed: after switch_labels on any target whose label and macro are
\* directories D-1 and D, the chain of the target file is valid.
C4_ChainValid == pc = "switched" => ChainValid

\* C4 as amended: after switch_labels on a target whose label and macro are
\* directories D-1 and D and in which every byte of directories 1..D-2 lies
\* before the label directory, the chain of the target file is valid.
C4_ChainValidAuxiliaryLast == (pc = "switched" /\ AuxiliaryLast) => ChainValid

C4_Witness ==
    /\ pc = "switched"
    /\ AuxiliaryLast
    /\ input.k > 0
    /\ Len(WalkOf(disk)) = input.k + 2
    /\ WalkOf(disk)[input.k + 1] # WalkOf(disk0)[input.k + 1]

\* C5: in a batch whose table could be read, an error in one row never ends
\* the batch: when switch_labels_from_file is over, every row was handled.
C5_BatchIsolation ==
    (pc \in {"returned", "raised"} /\ input \in {"csv", "xlsx"}) =>
        Len(handled) = Len(batch)

\* what the target file was built with: whether its candidates pass the tests
LabelAccepted == input.lcomp = 5 \/ input.ldesc \in {"label", "short"}
MacroAccepted == input.mcomp \in {6, 7} \/ input.mdesc = "macro"

\* C6: once the file is parsed, the label descriptor is set iff directory D-1
\* is LZW or its description contains 'label' or 'Label', and the macro
\* descriptor is set iff directory D is JPEG or its description contains
\* 'macro' or 'Macro', an absent description containing neither.
C6_ClassificationIff ==
    pc \notin {"start", "walk"} =>
        /\ label.set <=> LabelAccepted
        /\ macro.set <=> MacroAccepted

\* C7: a classification miss is never raised while the file is opened; only
\* the operation that needs the missing descriptor fails, with a not-found
\* error of its own and without a byte written.
C7_MissDeferred ==
    /\ raised_in # "_get_label_and_macro_info"
    /\ (/\ raised_in \in {"de_identify_slide", "label_IFD_offset_adjustment"}
        /\ ~label.set \/ ~macro.set)
          => err = "AuxImageNotFoundError" /\ disk = disk0

ValidHeader ==
    /\ input.marker = <<73, 73>>
    /\ input.version = 43
    /\ input.offset_size = 8
    /\ input.reserved = 0

\* C8: _read_header returns the first-directory offset X of a header whose
\* marker is 'II', version 43, offset size 8 and reserved field 0, and raises
\* without returning an offset when any of the four differs.
C8_HeaderRoundTrip ==
    pc # "start" =>
        IF ValidHeader
          THEN pc = "walk" /\ err = "none" /\ next_offset = input.first
        ELSE pc = "raised" /\ err # "none" /\ next_offset = 0

C8_Witness ==
    /\ pc = "raised"
    /\ input.marker = <<73, 73>> /\ input.version = 43 /\ input.offset_size = 8
    /\ input.reserved = 1
    /\ input.first = 1000

\* C9: opening a file whose chain has N directories and ends in 0 visits the
\* N directories in chain order, numbers them 1..N with their offsets, and
\* stops after the N-th.
C9_WalkVisitsChain ==
    LET N == input.k + 2
    IN  /\ directory_count <= N
        /\ raised_in \notin {"_read_header", "_read_IFDs"}
        /\ DOMAIN directory_offsets = 1..directory_count
        /\ \A j \in 1..directory_count :
              /\ directory_offsets[j] = Chain(input)[j]
              /\ next_dir_offsets[j].directory_offset = Chain(input)[j]
        /\ (pc = "walk" /\ directory_count < N) =>
              next_offset = Chain(input)[directory_count + 1]
        /\ (pc = "walk" /\ directory_count = N) => next_offset = 0
        /\ pc \notin {"start", "walk"} => directory_count = N

C9_Witness ==
    /\ pc = "opened"
    /\ directory_count = 3
    /\ input.layout = "auxfirst"
    /\ directory_offsets[1] > directory_offsets[2]

\* the blob raw patched for insertion point P: the slots of the tag records
\* that are longer than 8 bytes or are tag 273 hold their value + P - 16, and
\* no other byte differs (but, in a label, those of the next-directory field)
PatchedAs(raw, img, P, is_label) ==
    LET n == U64(raw, 16)
        tag(e) == U16(raw, 24 + 20 * e)
        length(e) == U64(raw, 28 + 20 * e) * TypeSize(U16(raw, 26 + 20 * e))
        pointer(e) == length(e) > 8 \/ tag(e) = 273
        slot(e) == 36 + 20 * e
        next_field == 24 + 20 * n
        rewritten == UNION ({slot(e)..(slot(e) + 7) : e \in {x \in 0..(n - 1) : pointer(x)}}
                            \cup {IF is_label THEN next_field..(next_field + 7) ELSE {}})
    IN  /\ Len(img) = Len(raw)
        /\ \A e \in 0..(n - 1) :
              Read(img, slot(e), 8) =
                 IF pointer(e) THEN Pack(U64(raw, slot(e)) + P - 16, 8)
                 ELSE Read(raw, slot(e), 8)
        /\ \A o \in (0..(Len(raw) - 1)) \ rewritten : img[o + 1] = raw[o + 1]

\* C10: update_ifd with insertion point P overwrites the value slot of every
\* tag record that is longer than 8 bytes or is tag 273 with V + P - 16 and
\* leaves every other slot and every other byte of the blob alone (in a label
\* all but the next-directory field).
C10_PatchedSlots ==
    /\ label_img # << >> => PatchedAs(label_raw, label_img, P_label, TRUE)
    /\ macro_img # << >> =>
          PatchedAs(macro_raw, macro_img, next_ifd_offset_adjustment, FALSE)

C10_Witness ==
    /\ pc = "constructed"
    /\ Read(label_img, 56, 8) # Read(label_raw, 56, 8)
    /\ Read(macro_img, 76, 8) # Read(macro_raw, 76, 8)
    /\ Read(macro_img, 36, 8) = <<8, 0, 8, 0, 8, 0, 8, 0>>

\* the offset of the field right behind the tag table of a blob's directory
NextField(raw) == 24 + 20 * U64(raw, 16)

\* the label blob is patched, its next-directory field holds v, v was handed on
\* as the macro's insertion point, the macro blob's next-directory field is
\* the one it was built with, and switch_labels writes the macro body at v
NextPointerIs(v) ==
    /\ U64(label_img, NextField(label_raw)) = v
    /\ next_ifd_offset_adjustment = v
    /\ pc \in {"constructed", "switched"} =>
          Read(macro_img, NextField(macro_raw), 8)
             = Read(macro_raw, NextField(macro_raw), 8)
    /\ pc = "switched" => Read(disk, v, M_macro) = Body(macro_img)

\* C11 as claimed: patching a label replacement with insertion point P rewrites
\* its next-directory field to (length of the target file) + P, that value is
\* the macro's insertion point and the position the macro is written at; a
\* macro replacement's next-directory field is not rewritten.
C11_NextPointerTargetEnd ==
    pc \in {"macro_img", "constructed", "switched"} =>
        NextPointerIs(Len(disk0) + slide_offset_adjustment)

\* C11 as amended: patching a label replacement with insertion point P
\* rewrites its next-directory field to (length of the label replacement blob,
\* its 16-byte header included) + P, that value is the macro's insertion point
\* and the position the macro is written at; a macro replacement's
\* next-directory field is not rewritten.
C11_NextPointerBlobEnd ==
    pc \in {"macro_img", "constructed", "switched"} =>
        NextPointerIs(Len(label_raw) + slide_offset_adjustment)

C11_Witness ==
    /\ pc = "switched"
    /\ next_ifd_offset_adjustment = Len(label_raw) + P_label
    /\ Len(disk0) # Len(label_raw)
    /\ U64(label_img, NextField(label_raw)) # U64(label_raw, NextField(label_raw))
    /\ Read(disk, next_ifd_offset_adjustment, M_macro) = Body(macro_img)

\* the record under test as _read_IFDs stored it
Decoded == tiff_info[1][input.tag]

\* the value is the count elements of the record, decoded
DecodedFully ==
    /\ Decoded.value.kind # "str"
    /\ Decoded.value.elems = [i \in 1..input.count |-> 40 + i]

\* the directory was read with the file where it has to be after each record:
\* both records found at their offsets, the record behind the one under test
\* decoded, and the next-directory field found behind the table
PositionKept ==
    /\ Decoded.pre_tag_offset = 24
    /\ tiff_info[1][339].pre_tag_offset = 44
    /\ tiff_info[1][339].value.elems = <<1>>
    /\ next_dir_offsets[1].pre_offset_offset = 64
    /\ IfdValue(disk, 44, input.tag, input.type, input.count, 36,
                Read(disk, 36, 8)).pos = 44

\* C12: _ifd_value decodes a value of at most 8 bytes from the slot; reads a
\* longer one from the pointer's target when the tag is 270, 273, 279 or 258
\* and gives 'Too long to display' for any other tag; and leaves the file
\* position where it was.
C12_ValueDecoder ==
    (pc = "walk" /\ directory_count = 1) =>
        LET length == input.count * TypeSize(input.type)
        IN  /\ length <= 8 => DecodedFully
            /\ (length > 8 /\ input.tag \in {270, 273, 279, 258}) => DecodedFully
            /\ (length > 8 /\ input.tag \notin {270, 273, 279, 258}) =>
                  Decoded.value.kind = "str"
            /\ PositionKept

\* the target file as it was, with the label strip (zl) and the macro strip
\* (zm) zeroed
Original(zl, zm) ==
    [i \in 1..Len(disk0) |->
        IF (zl /\ LabelStrip(i - 1)) \/ (zm /\ MacroStrip(i - 1)) THEN 0
        ELSE disk0[i]]

\* the file holds the label body at P and is otherwise what it was before
\* switch_labels: the macro body is not written yet
OnlyLabelWritten ==
    LET before == Original(remove, remove)
        end == P_label + L_label
    IN  /\ Read(disk, P_label, L_label) = Body(label_img)
        /\ Len(disk) = IF end > Len(disk0) THEN end ELSE Len(disk0)
        /\ \A i \in 1..Len(disk) :
              (i <= P_label \/ i > end) =>
                 disk[i] = IF i <= Len(disk0) THEN before[i] ELSE 0

\* C13: the writes of a label switch come in this order: with
\* remove_original_label_and_macro the label strip is zeroed, then the macro
\* strip, both while the LabelSwitcher is constructed and before any write
\* of switch_labels; switch_labels writes the label body, then the macro
\* body.  A LabelSwitcher that is constructed and not switched, or whose
\* label image is not built, leaves the file with zeroed strips and its
\* directory chain; without remove_original_label_and_macro construction
\* writes nothing.
C13_WriteOrder ==
    /\ pc \in {"start", "walk", "opened"} => disk = disk0
    /\ pc = "removing" => remove /\ disk = Original(TRUE, FALSE)
    /\ pc \in {"label_img", "macro_img", "constructed"} =>
          disk = Original(remove, remove)
    /\ pc = "raised" =>
          disk = IF raised_in \in {"_create_label", "update_ifd"}
                   THEN Original(remove, remove) ELSE disk0
    /\ pc \notin {"switching", "switched"} => WalkOf(disk) = WalkOf(disk0)
    /\ pc = "switching" => OnlyLabelWritten
    /\ pc = "switched" =>
          /\ Read(disk, P_label, L_label) = Body(label_img)
          /\ Read(disk, next_ifd_offset_adjustment, M_macro) = Body(macro_img)

C13_Witness ==
    /\ pc = "switching"
    /\ remove
    /\ \A o \in 0..(Len(disk0) - 1) :
          (LabelStrip(o) \/ MacroStrip(o)) => disk0[o + 1] # 0
    /\ \A o \in 0..(Len(disk0) - 1) : LabelStrip(o) => disk[o + 1] = 0
    /\ Read(disk, P_label, L_label) = Body(label_img)
    /\ Read(disk, next_ifd_offset_adjustment, M_macro) # Body(macro_img)

====
